---- MODULE Spec2Model ----
(***************************************************************************)
(* The feedback-authorization protocol of erc-8004-js: ReputationClient    *)
(* (createFeedbackAuth, signFeedbackAuth, giveFeedback, getLastIndex), the *)
(* issuance flow of examples/testReputation.ts that drives it, and the     *)
(* reputation registry it talks to; then IdentityClient, ValidationClient  *)
(* and the two adapters, EthersAdapter and ViemAdapter, they work through. *)
(*                                                                         *)
(* Addresses, agent ids, indices, timestamps and chain ids are integers;   *)
(* an ABI word is the integer it holds, so the ABI encoding of the record  *)
(* is the sequence of its seven words and the envelope is that sequence    *)
(* followed by the signature.                                              *)
(***************************************************************************)
EXTENDS Integers, Sequences, FiniteSets, TLC

VARIABLES lastIdx, now, flow, held, call, agents, validations

vars == <<lastIdx, now, flow, held, call, agents, validations>>

\* ------------------------------------------------------------------ bounds
\* Largest last-used index a pair reaches.
MaxIndex == 2
\* Largest value of the clock.
MaxTime == 2
\* Largest validity window an issuance flow asks for.
MaxWindow == 2
\* Largest agent id an identity registry hands out.
MaxAgentId == 1

\* --------------------------------------------------------------- constants
\* The accounts and deployments of the examples, as 160-bit integers.
AddrOf ==
  [none |-> 0, owner |-> 11, clientA |-> 12, clientB |-> 13, mallory |-> 14,
   validator |-> 15,
   identityRegistry |-> 21, otherRegistry |-> 22, reputationRegistry |-> 23,
   validationRegistry |-> 24]

\* addresses.chainId of the examples' deployment.
CHAIN_ID == 31337
OtherChain == CHAIN_ID + 1
\* The agent registered in Step 1 of the examples.
AgentId == 1

Clients == {AddrOf.clientA, AddrOf.clientB}
Signers == {AddrOf.owner, AddrOf.mallory}
Registries == {AddrOf.identityRegistry, AddrOf.otherRegistry}
Chains == {CHAIN_ID, OtherChain}
Scores == {-1, 0, 100, 101}
Flows == {"f1", "f2"}

\* The request hash validations are asked for.
RequestHashes == {"0xrequest"}

None == [none |-> TRUE]

\* What a call that throws gives its caller instead of a result.
Throw(message) == [error |-> message]

\* ------------------------------------------------------ ReputationClient
\* The node the examples connect to, and an endpoint that does not answer.
LocalNode == "http://127.0.0.1:8545"
DeadNode == "unreachable"

\* An adapter: its provider and the account of its signer (AddrOf.none when it
\* was constructed without one).
EthersAdapter(provider, signer) == [provider |-> provider, signer |-> signer]

\* An adapter over viem: the client it reads through, the wallet client it
\* writes through and its account.
ViemAdapter(publicClient, walletClient, account) ==
  [publicClient |-> publicClient, walletClient |-> walletClient, account |-> account]

\* A client instance: its adapter, the reputation registry it calls and the
\* identity registry it was built with.
ReputationClient(adapter, identityRegistryAddress) ==
  [adapter |-> adapter,
   contractAddress |-> AddrOf.reputationRegistry,
   identityRegistryAddress |-> identityRegistryAddress]

\* ERC8004Client handing the reputation client the reputation registry's
\* address as its identity registry.
ERC8004Client_ReputationAsIdentity(config) ==
  [adapter |-> config.adapter,
   addresses |-> config.addresses,
   reputation |-> ReputationClient(config.adapter, config.addresses.reputationRegistry)]

\* ERC8004Client: the adapter and the addresses of its config, and the
\* reputation client built from them.
ERC8004Client(config) ==
  [adapter |-> config.adapter,
   addresses |-> config.addresses,
   reputation |-> ReputationClient(config.adapter, config.addresses.identityRegistry)]

\* The agent owner's SDK and a client's SDK of the examples.
agentSDK == ReputationClient(EthersAdapter(LocalNode, AddrOf.owner), AddrOf.identityRegistry)
clientSDK(c) == ReputationClient(EthersAdapter(LocalNode, c), AddrOf.identityRegistry)
\* The same deployment through an adapter constructed without a signer.
readOnlySDK == ReputationClient(EthersAdapter(LocalNode, AddrOf.none), AddrOf.identityRegistry)

\* createFeedbackAuth binding every record to one hard-coded identity registry
\* instead of the one the client was constructed with.
createFeedbackAuth_FixedRegistry(self, agentId, clientAddress, indexLimit, expiry, chainId, signerAddress) ==
  [agentId |-> agentId,
   clientAddress |-> clientAddress,
   indexLimit |-> indexLimit,
   expiry |-> expiry,
   chainId |-> chainId,
   identityRegistry |-> AddrOf.identityRegistry,
   signerAddress |-> signerAddress]

\* createFeedbackAuth with the two address arguments taken in the wrong order.
createFeedbackAuth_AddressesSwapped(self, agentId, clientAddress, indexLimit, expiry, chainId, signerAddress) ==
  [agentId |-> agentId,
   clientAddress |-> signerAddress,
   indexLimit |-> indexLimit,
   expiry |-> expiry,
   chainId |-> chainId,
   identityRegistry |-> self.identityRegistryAddress,
   signerAddress |-> clientAddress]

createFeedbackAuth(self, agentId, clientAddress, indexLimit, expiry, chainId, signerAddress) ==
  [agentId |-> agentId,
   clientAddress |-> clientAddress,
   indexLimit |-> indexLimit,
   expiry |-> expiry,
   chainId |-> chainId,
   identityRegistry |-> self.identityRegistryAddress,
   signerAddress |-> signerAddress]

\* The encoding with the client's address copied into the signer's slot.
AbiEncode_ClientTwice(auth) ==
  <<auth.agentId, auth.clientAddress, auth.indexLimit, auth.expiry,
    auth.chainId, auth.identityRegistry, auth.clientAddress>>

\* The encoding with indexLimit and expiry in each other's slot.
AbiEncode_SlotsSwapped(auth) ==
  <<auth.agentId, auth.clientAddress, auth.expiry, auth.indexLimit,
    auth.chainId, auth.identityRegistry, auth.signerAddress>>

\* AbiCoder.encode of the seven static fields: one 32-byte word per field, in
\* the order of the type list.
AbiEncode(auth) ==
  <<auth.agentId, auth.clientAddress, auth.indexLimit, auth.expiry,
    auth.chainId, auth.identityRegistry, auth.signerAddress>>

\* keccak256 as an ideal hash: injective, and tagged so that a digest is never
\* mistaken for the bytes it was computed from.
keccak256(bytes) == <<"keccak256", bytes>>

\* The EIP-191 personal-message hash of a 32-byte message.
hashMessage(message) == keccak256(<<"\\x19Ethereum Signed Message:\\n32", message>>)

\* signMessage without the check for a signer.
signMessage_Unchecked(adapter, message) ==
  [signer |-> adapter.signer, signed |-> hashMessage(message)]

\* signMessage signing the bare digest, without the personal-message prefix.
signMessage_NoPrefix(adapter, message) ==
  IF adapter.signer = AddrOf.none
  THEN Throw("Signer required for signing")
  ELSE [signer |-> adapter.signer, signed |-> message]

\* adapter.signMessage: without a signer it throws; otherwise the adapter's
\* signer signs the prefixed hash.
signMessage(adapter, message) ==
  IF adapter.signer = AddrOf.none
  THEN Throw("Signer required for signing")
  ELSE [signer |-> adapter.signer, signed |-> hashMessage(message)]

\* ecrecover: the account whose key produced the signature over this hash.
recoverAddress(digest, signature) ==
  IF signature.signed = digest THEN signature.signer ELSE AddrOf.none

\* signFeedbackAuth encoding the identity registry of the instance in place of
\* the one the record carries.
signFeedbackAuth_OwnRegistry(self, auth) ==
  LET encoded == AbiEncode([auth EXCEPT !.identityRegistry = self.identityRegistryAddress])
      messageHash == keccak256(encoded)
      signature == signMessage(self.adapter, messageHash)
  IN  IF signature = Throw("Signer required for signing")
      THEN signature
      ELSE encoded \o <<signature>>

signFeedbackAuth(self, auth) ==
  LET encoded == AbiEncode(auth)
      messageHash == keccak256(encoded)
      signature == signMessage(self.adapter, messageHash)
  IN  IF signature = Throw("Signer required for signing")
      THEN signature
      ELSE encoded \o <<signature>>

\* ---------------------------------------------------------------- the bytes
\* The specifications of the protocol hold every word of an encoding as the
\* value it encodes. Below is the layout in bytes: a number is the sequence of
\* its big-endian bytes without leading zeros, an address a sequence of 20
\* bytes. A negative number is the bytes of its magnitude after the sign -1.
RECURSIVE toBeArray(_)
toBeArray(n) == IF n = 0 THEN <<>> ELSE toBeArray(n \div 256) \o <<n % 256>>

\* The smallest number that does not fit in 64 bits.
Two64 == <<1, 0, 0, 0, 0, 0, 0, 0, 0>>

zeroPadValue(bytes, length) == [i \in 1..(length - Len(bytes)) |-> 0] \o bytes

\* The length of an ABI word, of an address and of a signature r ++ s ++ v.
WordLength == 32
AddressLength == 20
SignatureLength == 65

Address(n) == zeroPadValue(toBeArray(n), AddressLength)

\* The type list signFeedbackAuth encodes with, and the one of the wire format.
FeedbackAuthTypes ==
  <<"uint256", "address", "uint256", "uint256", "uint256", "address", "address">>
WireTypes ==
  <<"uint256", "address", "uint64", "uint256", "uint256", "address", "address">>

TypeBits(type) ==
  CASE type = "uint256" -> 256
    [] type = "uint64" -> 64
    [] type = "address" -> 160

\* A number below zero.
Negative(value) == value # <<>> /\ Head(value) < 0

\* The coder checking the width of a value only.
OutOfBounds_WidthOnly(type, value) == Len(value) * 8 > TypeBits(type)

\* The coder rejects a negative number, a number wider than its type and an
\* address that is not 20 bytes long.
OutOfBounds(type, value) ==
  \/ Negative(value)
  \/ Len(value) * 8 > TypeBits(type)
  \/ type = "address" /\ Len(value) # AddressLength

\* The packed encoding: every value in the width of its own type.
encodeWord_Packed(type, value) == zeroPadValue(value, TypeBits(type) \div 8)

\* One static value: left-padded to a word.
encodeWord(type, value) == zeroPadValue(value, WordLength)

RECURSIVE encodeWords(_, _, _)
encodeWords(types, values, i) ==
  IF i > Len(types) THEN <<>>
  ELSE encodeWord(types[i], values[i]) \o encodeWords(types, values, i + 1)

\* AbiCoder.encode(types, values).
encode(types, values) ==
  IF \E i \in DOMAIN types : OutOfBounds(types[i], values[i])
  THEN Throw("value out-of-bounds")
  ELSE encodeWords(types, values, 1)

RECURSIVE stripZerosLeft(_)
stripZerosLeft(bytes) ==
  IF bytes # <<>> /\ Head(bytes) = 0 THEN stripZerosLeft(Tail(bytes)) ELSE bytes

\* What the verifier reads from word i of an encoding.
decodeWord(type, bytes, i) ==
  LET word == SubSeq(bytes, WordLength * (i - 1) + 1, WordLength * i)
  IN  IF type = "address"
      THEN SubSeq(word, WordLength - AddressLength + 1, WordLength)
      ELSE stripZerosLeft(word)

decode(types, bytes) == [i \in DOMAIN types |-> decodeWord(types[i], bytes, i)]

\* The 65 bytes of a signature; byte i of the signature `signature` is opaque.
SignatureBytes(signature) == [i \in 1..SignatureLength |-> <<signature, i>>]

\* ethers.concat([encoded, signature]) in bytes, for an envelope whose tuple is
\* encoded with `types`.
EnvelopeBytes(types, feedbackAuth) ==
  LET encoded == encode(types, SubSeq(feedbackAuth, 1, Len(types)))
  IN  IF encoded = Throw("value out-of-bounds")
      THEN encoded
      ELSE encoded \o SignatureBytes(feedbackAuth[Len(types) + 1])

\* signFeedbackAuth on a record of byte strings, step by step: the encoding,
\* which throws on a value the coder rejects; then the digest and the one
\* adapter.signMessage, reached only with an encoding; then the two
\* concatenated. `signed` counts the calls of adapter.signMessage.
signFeedbackAuthBytes(self, auth) ==
  LET encoded == encode(FeedbackAuthTypes, AbiEncode(auth))
  IN  IF encoded = Throw("value out-of-bounds")
      THEN [signed |-> 0, result |-> encoded]
      ELSE LET signature == signMessage(self.adapter, keccak256(encoded))
           IN  IF signature = Throw("Signer required for signing")
               THEN [signed |-> 1, result |-> signature]
               ELSE [signed |-> 1, result |-> encoded \o SignatureBytes(signature)]

\* giveFeedback up to the transaction it hands to adapter.send: the local score
\* check, then the seven arguments (optional fields omitted by the flows).
\* ethers.ZeroHash: 32 zero bytes, as a hex string.
ZeroHash == "0x0000000000000000000000000000000000000000000000000000000000000000"

\* ethers.id(text): the keccak256 of the text.
id(text) == keccak256(text)

\* An optional field the caller passed with a value that is not the empty
\* string (an omitted field and an empty one read alike).
Given(params, field) == field \in DOMAIN params /\ params[field] # ""

\* The arguments with feedbackUri and feedbackHash in each other's place.
giveFeedbackArgs_UriAndHashSwapped(params) ==
  LET tag1 == IF Given(params, "tag1") THEN id(params.tag1) ELSE ZeroHash
      tag2 == IF Given(params, "tag2") THEN id(params.tag2) ELSE ZeroHash
      feedbackHash == IF Given(params, "feedbackHash") THEN params.feedbackHash ELSE ZeroHash
      feedbackUri == IF Given(params, "feedbackUri") THEN params.feedbackUri ELSE ""
  IN  <<params.agentId, params.score, tag1, tag2, feedbackHash, feedbackUri,
        params.feedbackAuth>>

giveFeedbackArgs(params) ==
  LET tag1 == IF Given(params, "tag1") THEN id(params.tag1) ELSE ZeroHash
      tag2 == IF Given(params, "tag2") THEN id(params.tag2) ELSE ZeroHash
      feedbackHash == IF Given(params, "feedbackHash") THEN params.feedbackHash ELSE ZeroHash
      feedbackUri == IF Given(params, "feedbackUri") THEN params.feedbackUri ELSE ""
  IN  <<params.agentId, params.score, tag1, tag2, feedbackUri, feedbackHash,
        params.feedbackAuth>>

\* The score check with its upper boundary off by one.
scoreRejected_OffByOne(params) == params.score < 0 \/ params.score >= 100

scoreRejected(params) == params.score < 0 \/ params.score > 100

\* ------------------------------------------------------------ the registry
\* The deployment the examples talk to.
Registry ==
  [chainId |-> CHAIN_ID,
   identityRegistry |-> AddrOf.identityRegistry,
   ownerOf |-> [a \in {AgentId} |-> AddrOf.owner]]

\* The verifier splits the envelope at the fixed length of the encoding.
EncodedWords == 7
EncodedPart(feedbackAuth) == SubSeq(feedbackAuth, 1, EncodedWords)
SignaturePart(feedbackAuth) == feedbackAuth[EncodedWords + 1]

AbiDecode(words) ==
  [agentId |-> words[1], clientAddress |-> words[2], indexLimit |-> words[3],
   expiry |-> words[4], chainId |-> words[5], identityRegistry |-> words[6],
   signerAddress |-> words[7]]

\* The index check letting the last index itself through.
IndexOk_AtLeast(auth, last) == auth.indexLimit >= last

\* indexLimit must be > the last feedback index of this client.
IndexOk(auth, last) == auth.indexLimit > last

\* The authorization is void after its expiry.
ExpiryOk(auth, t) == t <= auth.expiry

\* Chain and identity-registry binding.
DeploymentOk(auth) ==
  /\ auth.chainId = Registry.chainId
  /\ auth.identityRegistry = Registry.identityRegistry

\* The signature recovers, under the prefixed hash of the digest of the
\* encoded tuple, to the signerAddress the tuple carries.
SignatureOk(feedbackAuth) ==
  LET encoded == EncodedPart(feedbackAuth)
      messageHash == keccak256(encoded)
      ethSignedMessageHash == hashMessage(messageHash)
      recovered == recoverAddress(ethSignedMessageHash, SignaturePart(feedbackAuth))
  IN  recovered = AbiDecode(encoded).signerAddress

\* The signer must be the agent's owner.
SignerAuthorized(auth) ==
  /\ auth.agentId \in DOMAIN Registry.ownerOf
  /\ auth.signerAddress = Registry.ownerOf[auth.agentId]

\* The registry's giveFeedback: whether the transaction of `sender` is accepted
\* when the pair's last index is `last` and the clock shows `t`.
RegistryAccepts(sender, args, last, t) ==
  LET auth == AbiDecode(EncodedPart(args[7]))
  IN  /\ args[2] >= 0 /\ args[2] <= 100
      /\ auth.agentId = args[1]
      /\ auth.clientAddress = sender
      /\ IndexOk(auth, last)
      /\ ExpiryOk(auth, t)
      /\ DeploymentOk(auth)
      /\ SignatureOk(args[7])
      /\ SignerAuthorized(auth)

\* getLastIndex answering from what the caller's previous read returned.
getLastIndex_Cached(self, agentId, clientAddress) ==
  IF self.adapter.provider = DeadNode
  THEN Throw("network error")
  ELSE IF /\ call # None /\ call.op = "getLastIndex"
          /\ call.clientAddress = clientAddress
  THEN call.result
  ELSE lastIdx[clientAddress]

\* getLastIndex: one adapter.call, the registry's counter of the pair; the
\* error of the call when the provider does not answer.
getLastIndex(self, agentId, clientAddress) ==
  IF self.adapter.provider = DeadNode
  THEN Throw("network error")
  ELSE lastIdx[clientAddress]

\* giveFeedback of the client instance `self`, whose adapter sends as its
\* signer: the outcome, the number of adapter.send calls made, and the pair's
\* last index afterwards (an accepted feedback takes the next index). THROWN is
\* the local score error, FAILED an adapter.send that throws without a verdict
\* of the registry (no signer, or the provider does not answer), REJECTED the
\* registry's revert.
giveFeedback(self, params) ==
  LET sender == self.adapter.signer
      last == IF sender \in DOMAIN lastIdx THEN lastIdx[sender] ELSE 0
  IN  IF scoreRejected(params)
      THEN [outcome |-> "THROWN", sent |-> 0, last |-> last]
      ELSE IF sender = AddrOf.none \/ self.adapter.provider = DeadNode
      THEN [outcome |-> "FAILED", sent |-> 1, last |-> last]
      ELSE IF RegistryAccepts(sender, giveFeedbackArgs(params), last, now)
      THEN [outcome |-> "CONFIRMED", sent |-> 1, last |-> last + 1]
      ELSE [outcome |-> "REJECTED", sent |-> 1, last |-> last]

\* ------------------------------------------------------------------- state
Idle ==
  [pc |-> "idle", sdk |-> None, client |-> AddrOf.none, lastIndex |-> 0,
   auth |-> None, env |-> None, score |-> 0, outcome |-> "none", sent |-> 0,
   live |-> FALSE]

Init ==
  /\ lastIdx = [c \in Clients |-> 0]
  /\ now = 0
  /\ flow = [f \in Flows |-> Idle]
  /\ held = None
  /\ call = None
  /\ agents = [r \in Registries |->
                 IF r = AddrOf.identityRegistry THEN Registry.ownerOf ELSE <<>>]
  /\ validations = [requestHash \in RequestHashes |-> None]

\* The clock of the chain advances.
Tick ==
  /\ now < MaxTime
  /\ now' = now + 1
  /\ UNCHANGED <<lastIdx, flow, held, call, agents, validations>>

\* ------------------------------------------------------- the issuance flow
\* Step 2 of the example: the issuer reads the client's last index, through
\* the agent owner's SDK or through one constructed without a signer.
QueryIndex(f) ==
  /\ flow[f].pc = "idle"
  /\ \E c \in Clients, sdk \in {agentSDK, readOnlySDK} :
       /\ lastIdx[c] < MaxIndex
       /\ flow' = [flow EXCEPT ![f] =
                     [Idle EXCEPT !.pc = "read", !.sdk = sdk, !.client = c,
                                  !.lastIndex = getLastIndex(sdk, AgentId, c)]]
  /\ UNCHANGED <<lastIdx, now, held, call, agents, validations>>

\* The flow asking for the index it read instead of the next one.
NextIndexLimit_Stale(lastIndex) == lastIndex

\* The indexLimit the example asks for: the next index.
NextIndexLimit(lastIndex) == lastIndex + 1

\* Step 2, continued: the record for the next index, valid for the window.
BuildRecord(f) ==
  /\ flow[f].pc = "read"
  /\ \E w \in 1..MaxWindow :
       flow' = [flow EXCEPT ![f].pc = "built",
                            ![f].auth =
                              createFeedbackAuth(flow[f].sdk, AgentId, flow[f].client,
                                                 NextIndexLimit(flow[f].lastIndex),
                                                 now + w, CHAIN_ID, AddrOf.owner)]
  /\ UNCHANGED <<lastIdx, now, held, call, agents, validations>>

\* Step 3: the issuer signs the record; when signFeedbackAuth throws, the flow
\* ends with the error and without an envelope.
Sign(f) ==
  /\ flow[f].pc = "built"
  /\ LET signedAuth == signFeedbackAuth(flow[f].sdk, flow[f].auth)
     IN  IF signedAuth = Throw("Signer required for signing")
         THEN flow' = [flow EXCEPT ![f].pc = "failed", ![f].outcome = "THROWN"]
         ELSE flow' = [flow EXCEPT ![f].pc = "signed", ![f].env = signedAuth]
  /\ UNCHANGED <<lastIdx, now, held, call, agents, validations>>

\* Step 4: the client submits the feedback with the envelope.
Submit(f) ==
  /\ flow[f].pc = "signed"
  /\ \E score \in Scores :
       LET c == flow[f].client
           r == giveFeedback(clientSDK(c),
                             [agentId |-> AgentId, score |-> score,
                              feedbackAuth |-> flow[f].env])
       IN  /\ flow' = [flow EXCEPT ![f] =
                         [Idle EXCEPT !.pc = "done", !.sdk = flow[f].sdk,
                                      !.client = c,
                                      !.lastIndex = flow[f].lastIndex,
                                      !.score = score, !.outcome = r.outcome,
                                      !.sent = r.sent,
                                      !.live = (now <= flow[f].auth.expiry)]]
           /\ lastIdx' = [lastIdx EXCEPT ![c] = r.last]
  /\ UNCHANGED <<now, held, call, agents, validations>>

\* The caller starts over with a fresh read.
Restart(f) ==
  /\ flow[f].pc \in {"done", "failed"}
  /\ flow' = [flow EXCEPT ![f] = Idle]
  /\ UNCHANGED <<lastIdx, now, held, call, agents, validations>>

Next ==
  \/ Tick
  \/ \E f \in Flows : QueryIndex(f)
  \/ \E f \in Flows : BuildRecord(f)
  \/ \E f \in Flows : Sign(f)
  \/ \E f \in Flows : Submit(f)
  \/ \E f \in Flows : Restart(f)

Spec == Init /\ [][Next]_vars

\* ------------------------------------------- the library called directly
\* The record an envelope carries.
RecordOf(feedbackAuth) == AbiDecode(EncodedPart(feedbackAuth))

\* The account a signature of an envelope recovers to, as the verifier
\* computes it.
RecoveredSigner(feedbackAuth) ==
  recoverAddress(hashMessage(keccak256(EncodedPart(feedbackAuth))),
                 SignaturePart(feedbackAuth))

\* A caller builds and signs a record with arguments of its own choice, through
\* a client instance of its own configuration, and keeps the envelope. `asked`
\* are the arguments and the identity registry of the instance, `signedBy` the
\* adapter's account, `fresh` whether the expiry was still ahead of the clock
\* when the record was signed.
Create ==
  /\ held = None
  /\ \E signer \in Signers, registry \in Registries, c \in Clients,
        indexLimit \in 0..MaxIndex, expiry \in 0..MaxTime,
        chainId \in Chains, signerAddress \in Signers :
       LET self == ReputationClient(EthersAdapter(LocalNode, signer), registry)
           auth == createFeedbackAuth(self, AgentId, c, indexLimit, expiry,
                                      chainId, signerAddress)
       IN  held' = [asked |-> [agentId |-> AgentId, clientAddress |-> c,
                               indexLimit |-> indexLimit, expiry |-> expiry,
                               chainId |-> chainId,
                               identityRegistry |-> self.identityRegistryAddress,
                               signerAddress |-> signerAddress],
                    env |-> signFeedbackAuth(self, auth),
                    signedBy |-> signer, fresh |-> auth.expiry > now,
                    used |-> FALSE, usedNext |-> FALSE, outcome |-> "none",
                    replay |-> FALSE, replayNext |-> FALSE, before |-> 0,
                    live |-> FALSE]
  /\ UNCHANGED <<lastIdx, now, flow, call, agents, validations>>

\* Some client submits the envelope held, for the first time or again. Kept of
\* the call: its outcome, the last index of the envelope's pair before it
\* (`before`), whether the envelope was unexpired (`live`), whether it had been
\* confirmed before (`replay`), and whether it had been confirmed before as the
\* pair's next index (`replayNext`).
SubmitHeld ==
  /\ held # None
  /\ \E sender \in Clients, score \in Scores :
       LET r == giveFeedback(clientSDK(sender),
                             [agentId |-> AgentId, score |-> score,
                              feedbackAuth |-> held.env])
           rec == RecordOf(held.env)
           confirmed == r.outcome = "CONFIRMED"
       IN  /\ held' = [held EXCEPT !.used = held.used \/ confirmed,
                                   !.usedNext = held.usedNext
                                     \/ (confirmed /\ rec.indexLimit = lastIdx[sender] + 1),
                                   !.outcome = r.outcome,
                                   !.replay = held.used,
                                   !.replayNext = held.usedNext,
                                   !.before = lastIdx[rec.clientAddress],
                                   !.live = (now <= rec.expiry)]
           /\ lastIdx' = [lastIdx EXCEPT ![sender] = r.last]
  /\ UNCHANGED <<now, flow, call, agents, validations>>

\* The envelope is dropped.
Discard ==
  /\ held # None
  /\ held' = None
  /\ UNCHANGED <<lastIdx, now, flow, call, agents, validations>>

NextDirect ==
  \/ Tick
  \/ Create
  \/ SubmitHeld
  \/ Discard

SpecDirect == Init /\ [][NextDirect]_vars

\* ------------------------------------------------------ an abandoned flow
\* The agent owner builds and signs a record as the issuance flow does, for any
\* index and any expiry ahead of the clock, and the flow is abandoned before
\* the submission: the envelope stays with whoever holds the bytes.
Abandon ==
  /\ held = None
  /\ \E c \in Clients, indexLimit \in 1..MaxIndex, w \in 1..MaxWindow :
       LET auth == createFeedbackAuth(agentSDK, AgentId, c, indexLimit, now + w,
                                      CHAIN_ID, AddrOf.owner)
       IN  held' = [env |-> signFeedbackAuth(agentSDK, auth), signedAt |-> now,
                    outcome |-> "none", before |-> 0, live |-> FALSE,
                    late |-> FALSE, byClient |-> FALSE, scoreOk |-> FALSE]
  /\ UNCHANGED <<lastIdx, now, flow, call, agents, validations>>

\* Some holder of the bytes submits the envelope through the SDK of some
\* account. Kept of the call: its outcome, the last index of the envelope's
\* pair before it (`before`), whether the envelope was unexpired (`live`),
\* whether the clock had advanced since it was signed (`late`), whether the
\* submitting account was the client of the record (`byClient`) and whether
\* the score passed the local check (`scoreOk`).
SubmitAbandoned ==
  /\ held # None
  /\ \E sender \in Clients, score \in Scores :
       LET params == [agentId |-> AgentId, score |-> score, feedbackAuth |-> held.env]
           r == giveFeedback(clientSDK(sender), params)
           rec == RecordOf(held.env)
       IN  /\ held' = [held EXCEPT !.outcome = r.outcome,
                                   !.before = lastIdx[rec.clientAddress],
                                   !.live = (now <= rec.expiry),
                                   !.late = (now > held.signedAt),
                                   !.byClient = (sender = rec.clientAddress),
                                   !.scoreOk = ~scoreRejected(params)]
           /\ lastIdx' = [lastIdx EXCEPT ![sender] = r.last]
  /\ UNCHANGED <<now, flow, call, agents, validations>>

NextAbandon ==
  \/ Tick
  \/ Abandon
  \/ SubmitAbandoned
  \/ Discard

SpecAbandon == Init /\ [][NextAbandon]_vars

\* ------------------------------------------------ single calls, in bytes
\* The values the calls below are made with.
IndexValues == {toBeArray(0), toBeArray(1), toBeArray(2), Two64}
ExpiryValues == {toBeArray(1), toBeArray(2)}
ChainValues == {toBeArray(CHAIN_ID), toBeArray(OtherChain)}
ClientValues == {Address(c) : c \in Clients}
SignerValues == {Address(a) : a \in Signers}
RegistryValues == {Address(r) : r \in Registries}
Capabilities == Signers \cup {AddrOf.none}

\* A caller builds a record through instance `selfA` and has it signed by
\* `selfA` and, the same record, by another instance `selfB`.
CallSign ==
  /\ call = None
  /\ \E sa \in Capabilities, sb \in Capabilities,
        ra \in RegistryValues, rb \in RegistryValues,
        c \in ClientValues, indexLimit \in IndexValues, expiry \in ExpiryValues,
        chainId \in ChainValues, signerAddress \in SignerValues :
       LET selfA == ReputationClient(EthersAdapter(LocalNode, sa), ra)
           selfB == ReputationClient(EthersAdapter(LocalNode, sb), rb)
           auth == createFeedbackAuth(selfA, toBeArray(AgentId), c, indexLimit,
                                      expiry, chainId, signerAddress)
       IN  call' = [op |-> "signFeedbackAuth", selfA |-> selfA, selfB |-> selfB,
                    auth |-> auth,
                    envA |-> signFeedbackAuth(selfA, auth),
                    envB |-> signFeedbackAuth(selfB, auth)]
  /\ UNCHANGED <<lastIdx, now, flow, held, agents, validations>>

\* The values a field of a record can take.
FieldValues(field) ==
  CASE field = "agentId" -> {toBeArray(AgentId), toBeArray(AgentId + 1)}
    [] field = "clientAddress" -> ClientValues
    [] field = "indexLimit" -> IndexValues
    [] field = "expiry" -> ExpiryValues
    [] field = "chainId" -> ChainValues
    [] field = "identityRegistry" -> RegistryValues
    [] field = "signerAddress" -> SignerValues

Fields == {"agentId", "clientAddress", "indexLimit", "expiry", "chainId",
           "identityRegistry", "signerAddress"}

\* The agent owner signs a record and a second one that differs from it in
\* exactly one field.
CallSignPair ==
  /\ call = None
  /\ \E r \in RegistryValues, agentId \in FieldValues("agentId"),
        c \in ClientValues, indexLimit \in IndexValues, expiry \in ExpiryValues,
        chainId \in ChainValues, signerAddress \in SignerValues, field \in Fields :
       \E value \in FieldValues(field) :
         LET self == ReputationClient(EthersAdapter(LocalNode, AddrOf.owner), r)
             auth == createFeedbackAuth(self, agentId, c, indexLimit, expiry,
                                        chainId, signerAddress)
             other == [auth EXCEPT ![field] = value]
         IN  /\ other # auth
             /\ call' = [op |-> "pair", self |-> self, field |-> field,
                          auth |-> auth, other |-> other,
                          env |-> signFeedbackAuth(self, auth),
                          envOther |-> signFeedbackAuth(self, other)]
  /\ UNCHANGED <<lastIdx, now, flow, held, agents, validations>>

\* Values no well-formed record has in a field: a negative number, a number of
\* 33 bytes, an address a byte short and one a byte long.
MinusOne == <<-1, 1>>
Overlong == [i \in 1..(WordLength + 1) |-> 1]
ShortAddress == [i \in 1..(AddressLength - 1) |-> 1]
LongAddress == [i \in 1..(AddressLength + 1) |-> 1]
AddressFields == {"clientAddress", "identityRegistry", "signerAddress"}
MalformedValues(field) ==
  IF field \in AddressFields
  THEN {ShortAddress, LongAddress}
  ELSE {MinusOne, Overlong}

\* A caller builds a record, any one field of it well formed or not, and has
\* it signed.
CallSignBytes ==
  /\ call = None
  /\ \E s \in Capabilities, r \in RegistryValues, c \in ClientValues,
        signerAddress \in SignerValues, field \in Fields :
       \E value \in FieldValues(field) \cup MalformedValues(field) :
         LET self == ReputationClient(EthersAdapter(LocalNode, s), r)
             built == createFeedbackAuth(self, toBeArray(AgentId), c, toBeArray(1),
                                         toBeArray(MaxTime), toBeArray(CHAIN_ID),
                                         signerAddress)
             auth == [built EXCEPT ![field] = value]
         IN  call' = [op |-> "signBytes", self |-> self, auth |-> auth,
                      run |-> signFeedbackAuthBytes(self, auth)]
  /\ UNCHANGED <<lastIdx, now, flow, held, agents, validations>>

\* A caller constructs an ERC8004Client for a deployment and builds a record
\* through its reputation client.
CallCreate ==
  /\ call = None
  /\ \E s \in Capabilities, r \in Registries, agentId \in {AgentId, AgentId + 1},
        c \in Clients, indexLimit \in 0..MaxIndex, expiry \in 0..MaxTime,
        chainId \in Chains, signerAddress \in Signers \cup Registries :
       LET sdk == ERC8004Client([adapter |-> EthersAdapter(LocalNode, s),
                                 addresses |-> [identityRegistry |-> r,
                                                reputationRegistry |-> AddrOf.reputationRegistry,
                                                chainId |-> CHAIN_ID]])
       IN  call' = [op |-> "createFeedbackAuth", sdk |-> sdk,
                    args |-> <<agentId, c, indexLimit, expiry, chainId, signerAddress>>,
                    auth |-> createFeedbackAuth(sdk.reputation, agentId, c, indexLimit,
                                                expiry, chainId, signerAddress)]
  /\ UNCHANGED <<lastIdx, now, flow, held, agents, validations>>

\* The instances single calls are made through: the provider answers or not,
\* the adapter has a client's signer or none.
Providers == {LocalNode, DeadNode}
Instances ==
  {ReputationClient(EthersAdapter(p, a), AddrOf.identityRegistry) :
     p \in Providers, a \in Clients \cup {AddrOf.none}}

\* The caller holds an instance it has made a call through.
InSession ==
  /\ call # None
  /\ call.op \in {"getLastIndex", "giveFeedback"}
  /\ call.self \in Instances

\* A caller reads the last index of a pair, through a new instance or through
\* the one it has used before. `at` is the registry's state at the call.
CallGetLastIndex ==
  /\ call = None \/ InSession
  /\ \E self \in Instances, c \in Clients :
       /\ InSession => self = call.self
       /\ call' = [op |-> "getLastIndex", self |-> self, clientAddress |-> c,
                    at |-> lastIdx, after |-> lastIdx,
                    result |-> getLastIndex(self, AgentId, c)]
  /\ UNCHANGED <<lastIdx, now, flow, held, agents, validations>>

\* A caller submits a feedback with an envelope the agent owner issued, through
\* a new instance or through the one it has used before. `at` and `after` are
\* the registry's state before and after the call.
CallGiveFeedback ==
  /\ call = None \/ InSession
  /\ \E self \in Instances, c \in Clients, indexLimit \in 0..MaxIndex,
        score \in Scores :
       LET auth == createFeedbackAuth(agentSDK, AgentId, c, indexLimit,
                                      now + MaxWindow, CHAIN_ID, AddrOf.owner)
           params == [agentId |-> AgentId, score |-> score,
                      feedbackAuth |-> signFeedbackAuth(agentSDK, auth)]
           r == giveFeedback(self, params)
           sender == self.adapter.signer
           registry == IF sender \in Clients
                       THEN [lastIdx EXCEPT ![sender] = r.last]
                       ELSE lastIdx
       IN  /\ InSession => self = call.self
           /\ call' = [op |-> "giveFeedback", self |-> self, params |-> params,
                        at |-> lastIdx, after |-> registry,
                        outcome |-> r.outcome, sent |-> r.sent,
                        returns |-> IF r.outcome = "CONFIRMED"
                                    THEN "txHash" ELSE "error"]
           /\ lastIdx' = registry
  /\ UNCHANGED <<now, flow, held, agents, validations>>

\* The optional fields of GiveFeedbackParams and a value for each.
OptionalFields == {"tag1", "tag2", "feedbackUri", "feedbackHash"}
OptionalValue ==
  [tag1 |-> "quality", tag2 |-> "speed", feedbackUri |-> "ipfs://feedback",
   feedbackHash |-> "0xfeedbac4"]

\* A client submits a feedback with the envelope issued for it, passing any
\* of the optional fields, any of those as the empty string. `args` is what
\* giveFeedback hands to adapter.send.
CallGiveFeedbackWith ==
  /\ call = None
  /\ \E c \in Clients, indexLimit \in 1..MaxIndex, score \in {0, 100},
        passed \in SUBSET OptionalFields :
       \E empty \in SUBSET passed :
         LET auth == createFeedbackAuth(agentSDK, AgentId, c, indexLimit,
                                        now + MaxWindow, CHAIN_ID, AddrOf.owner)
             feedbackAuth == signFeedbackAuth(agentSDK, auth)
             params == [field \in {"agentId", "score", "feedbackAuth"} \cup passed |->
                          CASE field = "agentId" -> AgentId
                            [] field = "score" -> score
                            [] field = "feedbackAuth" -> feedbackAuth
                            [] field \in empty -> ""
                            [] OTHER -> OptionalValue[field]]
             r == giveFeedback(clientSDK(c), params)
             registry == [lastIdx EXCEPT ![c] = r.last]
         IN  /\ call' = [op |-> "giveFeedbackWith", self |-> clientSDK(c),
                          params |-> params, args |-> giveFeedbackArgs(params),
                          at |-> lastIdx, after |-> registry,
                          outcome |-> r.outcome, sent |-> r.sent]
             /\ lastIdx' = registry
  /\ UNCHANGED <<now, flow, held, agents, validations>>

\* A wallet client or account the adapter was constructed without.
Undefined == "undefined"

\* The simulation skipped: every request goes on to be written.
simulateContract_Skipped(sender, args) == TRUE

\* publicClient.simulateContract: the registry's verdict on the transaction in
\* its present state; a call that would revert throws.
simulateContract(sender, args) == RegistryAccepts(sender, args, lastIdx[sender], now)

\* giveFeedback through a ViemAdapter, up to the simulation in send. Without
\* a wallet client send throws at once; a transaction that would revert throws
\* in the simulation; for one that would not, the request is prepared. `trace`
\* lists the calls the adapter has made, `simulatedAt` is the registry's state
\* the simulation ran in.
ViemSimulate ==
  /\ call = None
  /\ \E c \in Clients, walletClient \in {LocalNode, DeadNode, Undefined},
        indexLimit \in 1..MaxIndex :
       LET self == ReputationClient(ViemAdapter(LocalNode, walletClient, c),
                                    AddrOf.identityRegistry)
           auth == createFeedbackAuth(agentSDK, AgentId, c, indexLimit,
                                      now + MaxWindow, CHAIN_ID, AddrOf.owner)
           params == [agentId |-> AgentId, score |-> 100,
                      feedbackAuth |-> signFeedbackAuth(agentSDK, auth)]
           thrown(outcome, trace) ==
             [op |-> "giveFeedback", self |-> self, params |-> params,
              at |-> lastIdx, after |-> lastIdx, simulatedAt |-> lastIdx,
              outcome |-> outcome, sent |-> 1, returns |-> "error",
              trace |-> trace]
       IN  call' = IF walletClient = Undefined
                   THEN thrown("FAILED", <<>>)
                   ELSE IF ~simulateContract(c, giveFeedbackArgs(params))
                   THEN thrown("REJECTED", <<"simulateContract">>)
                   ELSE [op |-> "send", self |-> self, params |-> params,
                         simulatedAt |-> lastIdx, trace |-> <<"simulateContract">>]
  /\ UNCHANGED <<lastIdx, now, flow, held, agents, validations>>

\* A send of a ViemAdapter is under way.
Pending == call # None /\ call.op = "send"

\* ViemAdapter.send, next: walletClient.writeContract with the simulated
\* request. A wallet client that cannot reach the node throws.
ViemWrite ==
  /\ Pending
  /\ call.trace = <<"simulateContract">>
  /\ call' = IF call.self.adapter.walletClient = DeadNode
              THEN [op |-> "giveFeedback", self |-> call.self, params |-> call.params,
                    at |-> lastIdx, after |-> lastIdx, simulatedAt |-> call.simulatedAt,
                    outcome |-> "FAILED", sent |-> 1, returns |-> "error",
                    trace |-> Append(call.trace, "writeContract")]
              ELSE [call EXCEPT !.trace = Append(@, "writeContract")]
  /\ UNCHANGED <<lastIdx, now, flow, held, agents, validations>>

\* The rest of ViemAdapter.send: the transaction is mined, the registry
\* accepting it or reverting in the state it has by then; the receipt comes
\* back either way, its status is not read, and giveFeedback returns the
\* receipt's transaction hash.
ViemMine ==
  /\ Pending
  /\ call.trace = <<"simulateContract", "writeContract">>
  /\ LET sender == call.self.adapter.account
         accepted == RegistryAccepts(sender, giveFeedbackArgs(call.params),
                                     lastIdx[sender], now)
         registry == IF accepted
                     THEN [lastIdx EXCEPT ![sender] = @ + 1]
                     ELSE lastIdx
     IN  /\ call' = [op |-> "giveFeedback", self |-> call.self,
                      params |-> call.params, at |-> lastIdx, after |-> registry,
                      simulatedAt |-> call.simulatedAt,
                      outcome |-> IF accepted THEN "CONFIRMED" ELSE "REJECTED",
                      sent |-> 1, returns |-> "txHash",
                      trace |-> Append(call.trace, "waitForTransactionReceipt")]
         /\ lastIdx' = registry
  /\ UNCHANGED <<now, flow, held, agents, validations>>

\* While the caller holds its instance, a client's feedback submitted by
\* someone else, with an envelope for the next index, goes through.
OtherFeedback ==
  /\ InSession \/ Pending
  /\ \E c \in Clients :
       LET auth == createFeedbackAuth(agentSDK, AgentId, c, lastIdx[c] + 1,
                                      now + MaxWindow, CHAIN_ID, AddrOf.owner)
           r == giveFeedback(clientSDK(c),
                             [agentId |-> AgentId, score |-> 100,
                              feedbackAuth |-> signFeedbackAuth(agentSDK, auth)])
       IN  /\ lastIdx[c] < MaxIndex
           /\ lastIdx' = [lastIdx EXCEPT ![c] = r.last]
  /\ UNCHANGED <<now, flow, held, call, agents, validations>>

\* The caller is done with the results of its call.
Return ==
  /\ call # None
  /\ call' = None
  /\ UNCHANGED <<lastIdx, now, flow, held, agents, validations>>

NextCall ==
  \/ CallSign
  \/ CallSignPair
  \/ CallSignBytes
  \/ CallCreate
  \/ CallGetLastIndex
  \/ CallGiveFeedback
  \/ CallGiveFeedbackWith
  \/ ViemSimulate
  \/ ViemWrite
  \/ ViemMine
  \/ OtherFeedback
  \/ Return

SpecCall == Init /\ [][NextCall]_vars

\* ------------------------------------- the identity and validation clients
\* What the three registries hold.
RegistryState == [lastIdx |-> lastIdx, agents |-> agents, validations |-> validations]

\* The adapters the clients below are constructed over: with and without a
\* signer, wallet client and account.
IsEthers(adapter) == "signer" \in DOMAIN adapter
Accounts == {AddrOf.owner, AddrOf.validator}
Adapters ==
  {EthersAdapter(LocalNode, a) : a \in Accounts \cup {AddrOf.none}}
    \cup {ViemAdapter(LocalNode, w, a) :
             w \in {LocalNode, Undefined}, a \in Accounts \cup {AddrOf.none}}

\* The guard at the head of send: a signer, or a wallet client and an account.
CanWrite(adapter) ==
  IF IsEthers(adapter)
  THEN adapter.signer # AddrOf.none
  ELSE adapter.walletClient # Undefined /\ adapter.account # AddrOf.none

\* The error of that guard.
WriteError(adapter) ==
  IF IsEthers(adapter)
  THEN Throw("Signer required for write operations")
  ELSE Throw("Wallet client and account required for write operations")

\* The account the transactions of an adapter come from.
Sender(adapter) == IF IsEthers(adapter) THEN adapter.signer ELSE adapter.account

\* getAddress: null without a signer (ethers), without an account (viem).
Null == AddrOf.none
getAddress(adapter) ==
  IF IsEthers(adapter)
  THEN IF adapter.signer = AddrOf.none THEN Null ELSE adapter.signer
  ELSE IF adapter.account = AddrOf.none THEN Null ELSE adapter.account

IdentityClient(adapter, contractAddress) ==
  [adapter |-> adapter, contractAddress |-> contractAddress]

ValidationClient(adapter, contractAddress) ==
  [adapter |-> adapter, contractAddress |-> contractAddress]

\* The ids an identity registry can hand out.
AgentIds == 0..MaxAgentId

\* The events in the receipt of a registration, as the adapter parses them.
\* The registry at identityRegistry emits Transfer and Registered; the one at
\* otherRegistry is a deployment the ABI does not match, and only its Transfer
\* parses. The arguments of an event parsed by ethers are read by name and by
\* position, those of an event decoded by viem by name only.
EventArgs(adapter, agentId) ==
  [agentId |-> agentId, positional |-> IF IsEthers(adapter) THEN <<agentId>> ELSE <<>>]
Receipt(adapter, contractAddress, agentId) ==
  [txHash |-> "0xtx",
   events |-> IF contractAddress = AddrOf.identityRegistry
              THEN <<[name |-> "Transfer", args |-> EventArgs(adapter, agentId)],
                     [name |-> "Registered", args |-> EventArgs(adapter, agentId)]>>
              ELSE <<[name |-> "Transfer", args |-> EventArgs(adapter, agentId)]>>]

\* extractAgentIdFromReceipt: BigInt(args.agentId || args[0]) of the first
\* event named Registered. A zero agentId is falsy, so args[0] is read in its
\* place, and BigInt of an undefined args[0] throws.
extractAgentIdFromReceipt(result) ==
  LET registered == {i \in DOMAIN result.events : result.events[i].name = "Registered"}
  IN  IF registered = {}
      THEN Throw("Could not extract agentId from transaction receipt")
      ELSE LET first == CHOOSE i \in registered : \A j \in registered : i <= j
               args == result.events[first].args
           IN  IF args.agentId # 0
               THEN [agentId |-> args.agentId]
               ELSE IF args.positional # <<>>
               THEN [agentId |-> args.positional[1]]
               ELSE Throw("Cannot convert undefined to a BigInt")

\* The three forms of register.
RegisterFunctions == {"register", "register(string)", "register(string,(string,bytes)[])"}

\* register, registerWithURI and registerWithMetadata: one adapter.send, then
\* the agentId from its receipt. `agentId` is the id the registry hands out
\* for the registration; `sent` counts the adapter.send calls, `mined` tells
\* whether a transaction went through.
register(self, functionName, agentId) ==
  IF ~CanWrite(self.adapter)
  THEN [result |-> WriteError(self.adapter), sent |-> 1, mined |-> FALSE,
        receipt |-> None]
  ELSE LET receipt == Receipt(self.adapter, self.contractAddress, agentId)
           extracted == extractAgentIdFromReceipt(receipt)
       IN  [result |-> IF "error" \in DOMAIN extracted
                       THEN extracted
                       ELSE [agentId |-> extracted.agentId, txHash |-> receipt.txHash],
            sent |-> 1, mined |-> TRUE, receipt |-> receipt]

\* The agent owner, through an adapter that can write or one that cannot,
\* registers an agent.
Register ==
  /\ call = None
  /\ \E adapter \in {a \in Adapters : Sender(a) # AddrOf.validator},
        contractAddress \in Registries,
        functionName \in RegisterFunctions, agentId \in AgentIds :
       LET self == IdentityClient(adapter, contractAddress)
           r == register(self, functionName, agentId)
       IN  /\ agentId \notin DOMAIN agents[contractAddress]
           /\ call' = [op |-> "register", self |-> self, functionName |-> functionName,
                        assigned |-> agentId, before |-> RegistryState,
                        result |-> r.result, sent |-> r.sent, mined |-> r.mined,
                        receipt |-> r.receipt]
           /\ agents' = IF r.mined
                         THEN [agents EXCEPT ![contractAddress] =
                                 @ @@ (agentId :> Sender(adapter))]
                         ELSE agents
  /\ UNCHANGED <<lastIdx, now, flow, held, validations>>

\* getOwner: one adapter.call of ownerOf, which reverts for an id that is not
\* registered.
getOwner(self, agentId) ==
  IF agentId \in DOMAIN agents[self.contractAddress]
  THEN [value |-> agents[self.contractAddress][agentId]]
  ELSE Throw("execution reverted")

\* A caller reads the owner of an agent, or asks its adapter for its address.
Read ==
  /\ call = None
  /\ \E adapter \in Adapters, agentId \in AgentIds :
       \/ call' = [op |-> "getOwner", self |-> IdentityClient(adapter, AddrOf.identityRegistry),
                    agentId |-> agentId,
                    result |-> getOwner(IdentityClient(adapter, AddrOf.identityRegistry),
                                        agentId)]
       \/ call' = [op |-> "getAddress", self |-> [adapter |-> adapter],
                    agentId |-> agentId, result |-> [value |-> getAddress(adapter)]]
  /\ UNCHANGED <<lastIdx, now, flow, held, agents, validations>>

\* The validation registry: a request must come from the owner of the agent,
\* a response from the validator the request names.
RequestAccepted(sender, params) ==
  /\ params.agentId \in DOMAIN agents[AddrOf.identityRegistry]
  /\ agents[AddrOf.identityRegistry][params.agentId] = sender
ResponseAccepted(sender, requestHash) ==
  /\ validations[requestHash] # None
  /\ validations[requestHash].validatorAddress = sender

\* validationRequest: one adapter.send.
validationRequest(self, params) ==
  IF ~CanWrite(self.adapter)
  THEN [result |-> WriteError(self.adapter), sent |-> 1, mined |-> FALSE]
  ELSE IF ~RequestAccepted(Sender(self.adapter), params)
  THEN [result |-> Throw("execution reverted"), sent |-> 1, mined |-> FALSE]
  ELSE [result |-> [txHash |-> "0xtx", requestHash |-> params.requestHash],
        sent |-> 1, mined |-> TRUE]

\* The owner of an agent, or someone else, asks the validator for a validation.
ValidationRequest ==
  /\ call = None
  /\ \E adapter \in Adapters, requestHash \in RequestHashes :
       LET self == ValidationClient(adapter, AddrOf.validationRegistry)
           params == [validatorAddress |-> AddrOf.validator, agentId |-> AgentId,
                      requestUri |-> "ipfs://request", requestHash |-> requestHash]
           r == validationRequest(self, params)
       IN  /\ call' = [op |-> "validationRequest", self |-> self, params |-> params,
                        before |-> RegistryState,
                        result |-> r.result, sent |-> r.sent, mined |-> r.mined]
           /\ validations' =
                IF r.mined
                THEN [validations EXCEPT ![requestHash] =
                        [validatorAddress |-> params.validatorAddress,
                         agentId |-> params.agentId, response |-> 0,
                         responseHash |-> ZeroHash, tag |-> ZeroHash,
                         lastUpdate |-> now]]
                ELSE validations
  /\ UNCHANGED <<lastIdx, now, flow, held, agents>>

\* The response check with its lower boundary off by one.
responseRejected_OffByOne(params) == params.response <= 0 \/ params.response > 100

responseRejected(params) == params.response < 0 \/ params.response > 100

\* The arguments validationResponse hands to adapter.send.
validationResponseArgs(params) ==
  LET responseUri == IF Given(params, "responseUri") THEN params.responseUri ELSE ""
      responseHash == IF Given(params, "responseHash") THEN params.responseHash ELSE ZeroHash
      tag == IF Given(params, "tag") THEN id(params.tag) ELSE ZeroHash
  IN  <<params.requestHash, params.response, responseUri, responseHash, tag>>

\* validationResponse: the local check of the response, then one adapter.send.
validationResponse(self, params) ==
  IF responseRejected(params)
  THEN [result |-> Throw("Response MUST be between 0 and 100"), sent |-> 0,
        mined |-> FALSE, args |-> <<>>]
  ELSE LET args == validationResponseArgs(params)
       IN  IF ~CanWrite(self.adapter)
           THEN [result |-> WriteError(self.adapter), sent |-> 1, mined |-> FALSE,
                 args |-> args]
           ELSE IF ~ResponseAccepted(Sender(self.adapter), args[1])
           THEN [result |-> Throw("execution reverted"), sent |-> 1, mined |-> FALSE,
                 args |-> args]
           ELSE [result |-> [txHash |-> "0xtx"], sent |-> 1, mined |-> TRUE,
                 args |-> args]

\* The optional fields of ValidationResponseParams and a value for each.
OptionalResponseFields == {"responseUri", "responseHash", "tag"}
OptionalResponseValue ==
  [responseUri |-> "ipfs://response", responseHash |-> "0x4e5904", tag |-> "passed"]
Responses == {-1, 0, 100, 101}

\* A validator, or someone else, responds to a request.
ValidationResponse ==
  /\ call = None
  /\ \E adapter \in Adapters, requestHash \in RequestHashes, response \in Responses,
        passed \in SUBSET OptionalResponseFields :
       LET self == ValidationClient(adapter, AddrOf.validationRegistry)
           params == [field \in {"requestHash", "response"} \cup passed |->
                        CASE field = "requestHash" -> requestHash
                          [] field = "response" -> response
                          [] OTHER -> OptionalResponseValue[field]]
           r == validationResponse(self, params)
       IN  /\ call' = [op |-> "validationResponse", self |-> self, params |-> params,
                        before |-> RegistryState, args |-> r.args,
                        result |-> r.result, sent |-> r.sent, mined |-> r.mined]
           /\ validations' =
                IF r.mined
                THEN [validations EXCEPT ![requestHash] =
                        [@ EXCEPT !.response = r.args[2], !.responseHash = r.args[4],
                                  !.tag = r.args[5], !.lastUpdate = now]]
                ELSE validations
  /\ UNCHANGED <<lastIdx, now, flow, held, agents>>

\* What a read of the registry gives: the values, or an error of the adapter.
Ok == [ok |-> TRUE]
DecodeMessage == "could not decode result data"
ReadErrors ==
  {[code |-> "BAD_DATA", message |-> "could not decode result data (value=0x)"],
   [code |-> "UNKNOWN_ERROR", message |-> "could not decode result data (value=0x)"],
   [code |-> "NETWORK_ERROR", message |-> "failed to detect network"],
   [code |-> "CALL_EXCEPTION", message |-> "execution reverted"]}
ReadOutcomes == {Ok} \cup ReadErrors

\* message.includes(text), over the messages above.
includes(message, text) ==
  text = DecodeMessage /\ message = "could not decode result data (value=0x)"

\* What the registry holds for a request.
StatusOf(requestHash) ==
  IF validations[requestHash] = None
  THEN [validatorAddress |-> AddrOf.none, agentId |-> 0, response |-> 0,
        responseHash |-> ZeroHash, tag |-> ZeroHash, lastUpdate |-> 0]
  ELSE validations[requestHash]

\* getValidationStatus falling back on the error code alone.
getValidationStatus_CodeOnly(self, requestHash, first, second) ==
  IF first = Ok
  THEN [reads |-> 1, result |-> StatusOf(requestHash)]
  ELSE IF first.code = "BAD_DATA"
  THEN IF second = Ok
       THEN [reads |-> 2,
             result |-> [StatusOf(requestHash) EXCEPT !.responseHash = ZeroHash]]
       ELSE [reads |-> 2, result |-> Throw(second)]
  ELSE [reads |-> 1, result |-> Throw(first)]

\* getValidationStatus: a read with the ABI of six values; when that throws a
\* decoding error, a second read with the old ABI of five values, whose
\* status gets the zero responseHash; any other error is thrown on. `first`
\* and `second` are what the reads give, `reads` counts the adapter.call's.
getValidationStatus(self, requestHash, first, second) ==
  IF first = Ok
  THEN [reads |-> 1, result |-> StatusOf(requestHash)]
  ELSE IF first.code = "BAD_DATA" \/ includes(first.message, DecodeMessage)
  THEN IF second = Ok
       THEN [reads |-> 2,
             result |-> [StatusOf(requestHash) EXCEPT !.responseHash = ZeroHash]]
       ELSE [reads |-> 2, result |-> Throw(second)]
  ELSE [reads |-> 1, result |-> Throw(first)]

\* A caller reads the status of a request.
GetValidationStatus ==
  /\ call = None
  /\ \E adapter \in Adapters, requestHash \in RequestHashes,
        first \in ReadOutcomes, second \in ReadOutcomes :
       LET self == ValidationClient(adapter, AddrOf.validationRegistry)
           r == getValidationStatus(self, requestHash, first, second)
       IN  call' = [op |-> "getValidationStatus", self |-> self,
                    requestHash |-> requestHash, first |-> first, second |-> second,
                    reads |-> r.reads, result |-> r.result]
  /\ UNCHANGED <<lastIdx, now, flow, held, agents, validations>>

\* A write of the reputation or identity client that is one adapter.send and
\* nothing else.
PlainWrites == {"revokeFeedback", "appendResponse", "setMetadata", "setAgentUri"}
plainWrite(self, functionName) ==
  IF ~CanWrite(self.adapter)
  THEN [result |-> WriteError(self.adapter), sent |-> 1, mined |-> FALSE]
  ELSE [result |-> [txHash |-> "0xtx"], sent |-> 1, mined |-> TRUE]

\* A caller makes one of these writes, or submits a feedback with a valid
\* envelope through a client's SDK or the one without a signer.
Write ==
  /\ call = None
  /\ \/ \E adapter \in Adapters, functionName \in PlainWrites :
          LET self == [adapter |-> adapter]
              r == plainWrite(self, functionName)
          IN  /\ call' = [op |-> functionName, self |-> self, before |-> RegistryState,
                           result |-> r.result, sent |-> r.sent, mined |-> r.mined]
              /\ UNCHANGED lastIdx
     \/ \E self \in {clientSDK(AddrOf.clientA), readOnlySDK} :
          LET auth == createFeedbackAuth(agentSDK, AgentId, AddrOf.clientA,
                                         lastIdx[AddrOf.clientA] + 1, now + MaxWindow,
                                         CHAIN_ID, AddrOf.owner)
              r == giveFeedback(self, [agentId |-> AgentId, score |-> 100,
                                       feedbackAuth |-> signFeedbackAuth(agentSDK, auth)])
          IN  /\ lastIdx[AddrOf.clientA] < MaxIndex
              /\ call' = [op |-> "giveFeedback", self |-> self, before |-> RegistryState,
                           result |-> IF r.outcome = "CONFIRMED"
                                      THEN [txHash |-> "0xtx"]
                                      ELSE WriteError(self.adapter),
                           sent |-> r.sent, mined |-> r.outcome = "CONFIRMED"]
              /\ lastIdx' = IF self.adapter.signer = AddrOf.none
                             THEN lastIdx
                             ELSE [lastIdx EXCEPT ![self.adapter.signer] = r.last]
  /\ UNCHANGED <<now, flow, held, agents, validations>>

NextSdk ==
  \/ Register
  \/ Read
  \/ ValidationRequest
  \/ ValidationResponse
  \/ GetValidationStatus
  \/ Write
  \/ Return

SpecSdk == Init /\ [][NextSdk]_vars

\* ================================================================== claims
\* The last index of the pair the envelope held is for.
HeldPairIndex == lastIdx[RecordOf(held.env).clientAddress]

\* The envelope held passes every check of the registry but those on the
\* index and the submitter, at the time of its last submission.
HeldOtherwiseValid ==
  /\ held.live
  /\ DeploymentOk(RecordOf(held.env))
  /\ SignatureOk(held.env)
  /\ SignerAuthorized(RecordOf(held.env))

ValidScore(score) == score >= 0 /\ score <= 100

\* Flow f submits in this step.
Submits(f) == flow[f].pc = "signed" /\ flow'[f].pc = "done"

\* C3: a flow that read L for its pair, built the record for L + 1 with
\* expiry = now + window, had the agent owner sign it and submits it with a
\* score in [0,100] while the pair's last index is still L and the expiry has
\* not passed, ends CONFIRMED, and getLastIndex of the pair then returns L + 1;
\* this holds for every L, so the sequence repeated gives L + 2.
C3_RoundTrip ==
  [][\A f \in Flows :
       ( /\ Submits(f)
         /\ ValidScore(flow'[f].score)
         /\ flow[f].auth.signerAddress = Registry.ownerOf[AgentId]
         /\ lastIdx[flow[f].client] = flow[f].lastIndex
         /\ now <= flow[f].auth.expiry )
       => /\ flow'[f].outcome = "CONFIRMED"
          /\ lastIdx'[flow[f].client] = flow[f].lastIndex + 1]_vars

\* The second round trip of a pair: read 1, confirmed, the last index is 2.
C3_Witness ==
  \E f \in Flows :
    /\ flow[f].pc = "done"
    /\ flow[f].outcome = "CONFIRMED"
    /\ flow[f].lastIndex = 1
    /\ lastIdx[flow[f].client] = 2

\* Two flows have both submitted, with scores in [0,100], envelopes built from
\* the same read L of the same pair.
Raced(f, g) ==
  /\ f # g
  /\ flow[f].pc = "done" /\ flow[g].pc = "done"
  /\ flow[f].sent = 1 /\ flow[g].sent = 1
  /\ flow[f].client = flow[g].client
  /\ flow[f].lastIndex = flow[g].lastIndex

\* C4: when two flows read the same L for the same pair and both submit their
\* envelope for L + 1 (unexpired), exactly one is CONFIRMED and the other
\* REJECTED, and the pair's last index ends at L + 1; whatever the expiries,
\* never both are CONFIRMED and the last index never reaches L + 2.
C4_RaceOneWins ==
  \A f, g \in Flows :
    Raced(f, g) =>
      /\ ~(flow[f].outcome = "CONFIRMED" /\ flow[g].outcome = "CONFIRMED")
      /\ lastIdx[flow[f].client] <= flow[f].lastIndex + 1
      /\ (flow[f].live /\ flow[g].live) =>
           /\ \E w \in {f, g} :
                /\ flow[w].outcome = "CONFIRMED"
                /\ \A l \in {f, g} \ {w} : flow[l].outcome = "REJECTED"
           /\ lastIdx[flow[f].client] = flow[f].lastIndex + 1

\* Both flows raced on L = 1: one CONFIRMED, one REJECTED, the index is 2.
C4_Witness ==
  \E f, g \in Flows :
    /\ Raced(f, g)
    /\ flow[f].live /\ flow[g].live
    /\ flow[f].lastIndex = 1
    /\ flow[f].outcome = "CONFIRMED"
    /\ flow[g].outcome = "REJECTED"
    /\ lastIdx[flow[f].client] = 2

\* C5: while the clock is past the expiry of an envelope (the expiry it carries,
\* which is the expiry its record was built with), no submission of it
\* is accepted (it is never confirmed and no last index moves), and the clock
\* never goes back, so the envelope stays unusable for good.
C5_ExpiredNeverAccepted ==
  [][(held # None /\ (now > RecordOf(held.env).expiry \/ now > held.asked.expiry)) =>
       /\ now' >= now
       /\ lastIdx' = lastIdx
       /\ held' # None =>
            /\ held'.used = held.used
            /\ held' # held => held'.outcome \in {"REJECTED", "THROWN"}]_vars

\* An envelope that fails no check but the expiry was submitted and REJECTED.
C5_Witness ==
  /\ held # None
  /\ held.outcome = "REJECTED"
  /\ now > RecordOf(held.env).expiry
  /\ ~held.live
  /\ RecordOf(held.env).indexLimit = held.before + 1
  /\ DeploymentOk(RecordOf(held.env))
  /\ SignatureOk(held.env)
  /\ SignerAuthorized(RecordOf(held.env))

\* C6: an accepted envelope carries the chain id and the identity registry of
\* the verifying deployment, and was built for that chain by a client of that
\* identity registry; with another chain id or another identity registry it is
\* rejected, whatever its signature, index and expiry.
C6_DeploymentBinding ==
  (held # None /\ held.outcome = "CONFIRMED") =>
    /\ RecordOf(held.env).chainId = Registry.chainId
    /\ RecordOf(held.env).identityRegistry = Registry.identityRegistry
    /\ held.asked.chainId = Registry.chainId
    /\ held.asked.identityRegistry = Registry.identityRegistry

\* An unexpired envelope for the next index, signed by the agent's owner, bound
\* to another chain or to another identity registry, was REJECTED.
C6_Witness ==
  /\ held # None
  /\ held.outcome = "REJECTED"
  /\ ~DeploymentOk(RecordOf(held.env))
  /\ held.live
  /\ RecordOf(held.env).indexLimit = held.before + 1
  /\ SignatureOk(held.env)
  /\ SignerAuthorized(RecordOf(held.env))

\* C7: giveFeedback with a score outside [0,100] throws without calling
\* adapter.send; with the boundary scores 0 and 100 it calls adapter.send
\* exactly once and does not throw.
C7_ScoreCheckedLocally ==
  \A f \in Flows :
    flow[f].pc = "done" =>
      /\ ~ValidScore(flow[f].score) =>
           flow[f].outcome = "THROWN" /\ flow[f].sent = 0
      /\ flow[f].score \in {0, 100} =>
           flow[f].outcome \in {"CONFIRMED", "REJECTED"} /\ flow[f].sent = 1

\* One call with score 101 threw before any send, one with score 100 was sent
\* and confirmed.
C7_Witness ==
  \E f, g \in Flows :
    /\ flow[f].pc = "done" /\ flow[f].score = 101
    /\ flow[f].outcome = "THROWN" /\ flow[f].sent = 0
    /\ flow[g].pc = "done" /\ flow[g].score = 100
    /\ flow[g].outcome = "CONFIRMED" /\ flow[g].sent = 1

\* C8: every record the issuance flow builds is for the pair it read the last
\* index of, with indexLimit = that last index + 1; the value read is a value
\* the registry held, so it never exceeds the pair's current last index.
C8_IndexLimitIsNext ==
  \A f \in Flows :
    /\ flow[f].pc \in {"read", "built", "signed"} =>
         flow[f].lastIndex <= lastIdx[flow[f].client]
    /\ flow[f].auth # None =>
         /\ flow[f].auth.agentId = AgentId
         /\ flow[f].auth.clientAddress = flow[f].client
         /\ flow[f].auth.indexLimit = flow[f].lastIndex + 1

\* A record for the second feedback of a pair: read 1, indexLimit 2.
C8_Witness ==
  \E f \in Flows :
    /\ flow[f].pc = "built"
    /\ flow[f].lastIndex = 1
    /\ flow[f].auth.indexLimit = 2

\* C9: whenever signFeedbackAuth has produced an envelope, the expiry of the
\* record was strictly greater than the time at which it was signed.
C9_ExpiryAheadAtSigning ==
  held # None => held.fresh

\* C10, as claimed: the signature of every envelope produced by
\* createFeedbackAuth and signFeedbackAuth recovers to the signerAddress the
\* encoded record carries.
C10_SignerAddressIsSigner ==
  held # None => RecoveredSigner(held.env) = RecordOf(held.env).signerAddress

\* C10, amended: the record carries the signerAddress argument unchanged and
\* the signature recovers to the account of the adapter that signed; the two
\* agree exactly when the caller passed the signing account as signerAddress.
C10_RecoversAdapterSigner ==
  held # None =>
    /\ RecordOf(held.env).signerAddress = held.asked.signerAddress
    /\ RecoveredSigner(held.env) = held.signedBy
    /\ SignatureOk(held.env) <=> held.asked.signerAddress = held.signedBy

\* An envelope whose record names one account and whose signature recovers to
\* another, the adapter's.
C10_Witness ==
  /\ held # None
  /\ held.asked.signerAddress # held.signedBy
  /\ RecoveredSigner(held.env) = held.signedBy
  /\ RecordOf(held.env).signerAddress = held.asked.signerAddress

\* The last call signed a record, and both instances returned an envelope.
SignedTwice ==
  /\ call # None
  /\ call.op = "signFeedbackAuth"
  /\ call.envA # Throw("Signer required for signing")
  /\ call.envB # Throw("Signer required for signing")

\* C11: the encoding of a record is the same bytes, and so the same digest,
\* whichever client instance encodes it and however often: the tuple in the
\* envelope of either instance encodes to the bytes the record encodes to.
C11_EncodingDeterministic ==
  SignedTwice =>
    LET bytes == encode(FeedbackAuthTypes, AbiEncode(call.auth))
        bytesA == encode(FeedbackAuthTypes, EncodedPart(call.envA))
        bytesB == encode(FeedbackAuthTypes, EncodedPart(call.envB))
    IN  /\ bytesA = bytes /\ bytesB = bytes
        /\ keccak256(bytesA) = keccak256(bytesB)
        /\ bytes # Throw("value out-of-bounds")

\* One record was encoded by two instances of different signers and different
\* identity registries.
C11_Witness ==
  /\ SignedTwice
  /\ call.selfA.adapter.signer # call.selfB.adapter.signer
  /\ call.selfA.identityRegistryAddress # call.selfB.identityRegistryAddress
  /\ Len(encode(FeedbackAuthTypes, EncodedPart(call.envB))) = EncodedWords * WordLength

\* C12: the encodings, and the digests, of two records that differ in exactly
\* one of the seven fields differ.
C12_EveryFieldCounts ==
  (call # None /\ call.op = "pair") =>
    LET bytes == encode(FeedbackAuthTypes, EncodedPart(call.env))
        bytesOther == encode(FeedbackAuthTypes, EncodedPart(call.envOther))
    IN  /\ bytes # bytesOther
        /\ keccak256(bytes) # keccak256(bytesOther)
        /\ SignaturePart(call.env).signed # SignaturePart(call.envOther).signed

\* Two records that differ in the last field only, the signer's address, were
\* encoded.
C12_Witness ==
  /\ call # None
  /\ call.op = "pair"
  /\ call.field = "signerAddress"
  /\ call.auth.signerAddress # call.other.signerAddress
  /\ \A f \in Fields \ {"signerAddress"} : call.auth[f] = call.other[f]
  /\ Len(encode(FeedbackAuthTypes, EncodedPart(call.env))) = EncodedWords * WordLength

\* The last call signed a record and instance A returned an envelope.
SignedByA ==
  /\ call # None
  /\ call.op = "signFeedbackAuth"
  /\ call.envA # Throw("Signer required for signing")

\* The fixed boundary between the encoded tuple and the signature, in bytes.
Boundary == EncodedWords * WordLength

\* C13: the envelope signFeedbackAuth returns is the encoding of the record
\* followed by the signature; the encoding is seven 32-byte words long for every
\* record, so splitting the envelope at that boundary gives back the seven
\* fields unchanged and leaves the 65 bytes of the signature.
C13_EnvelopeSplits ==
  SignedByA =>
    LET bytes == EnvelopeBytes(FeedbackAuthTypes, call.envA)
        encoded == encode(FeedbackAuthTypes, AbiEncode(call.auth))
        signature == signMessage(call.selfA.adapter, keccak256(AbiEncode(call.auth)))
    IN  /\ Len(encoded) = Boundary
        /\ bytes = encoded \o SignatureBytes(signature)
        /\ SubSeq(bytes, 1, Boundary) = encoded
        /\ decode(FeedbackAuthTypes, SubSeq(bytes, 1, Boundary)) = AbiEncode(call.auth)
        /\ SubSeq(bytes, Boundary + 1, Len(bytes)) = SignatureBytes(signature)
        /\ Len(bytes) - Boundary = SignatureLength

\* An envelope of a record with the shortest and the longest values of the
\* value sets (agentId 1, indexLimit 2^64) was split.
C13_Witness ==
  /\ SignedByA
  /\ call.auth.indexLimit = Two64
  /\ Len(EnvelopeBytes(FeedbackAuthTypes, call.envA)) = Boundary + SignatureLength
  /\ decode(FeedbackAuthTypes, EnvelopeBytes(FeedbackAuthTypes, call.envA))[3] = Two64

\* C14: two signatures of the same digest made with the same signing
\* capability each recover, under the prefixed hash of the digest, to the
\* address of that capability.
C14_SameSignerTwice ==
  (SignedTwice /\ call.selfA.adapter.signer = call.selfB.adapter.signer) =>
    LET digest == keccak256(EncodedPart(call.envA))
    IN  /\ digest = keccak256(EncodedPart(call.envB))
        /\ recoverAddress(hashMessage(digest), SignaturePart(call.envA))
             = call.selfA.adapter.signer
        /\ recoverAddress(hashMessage(digest), SignaturePart(call.envB))
             = call.selfA.adapter.signer

\* One record was signed twice by the owner's capability, through two
\* instances, and both signatures recover to the owner.
C14_Witness ==
  /\ SignedTwice
  /\ call.selfA.adapter.signer = AddrOf.owner
  /\ call.selfB.adapter.signer = AddrOf.owner
  /\ call.selfA # call.selfB
  /\ RecoveredSigner(call.envA) = AddrOf.owner
  /\ RecoveredSigner(call.envB) = AddrOf.owner

\* The indexLimit of the record fits in 64 bits.
FitsUint64(value) == Len(value) * 8 <= TypeBits("uint64")

\* C20: for every record whose indexLimit fits in 64 bits, the envelope
\* signFeedbackAuth produces (indexLimit as uint256) is byte for byte the
\* envelope of the wire format (indexLimit as uint64).
C20_MatchesWireFormat ==
  (SignedByA /\ FitsUint64(call.auth.indexLimit)) =>
    /\ EnvelopeBytes(FeedbackAuthTypes, call.envA) = EnvelopeBytes(WireTypes, call.envA)
    /\ EnvelopeBytes(WireTypes, call.envA) # Throw("value out-of-bounds")

\* An envelope with indexLimit 2 is the same bytes under both type lists, 289
\* of them.
C20_Witness ==
  /\ SignedByA
  /\ call.auth.indexLimit = toBeArray(2)
  /\ EnvelopeBytes(FeedbackAuthTypes, call.envA) = EnvelopeBytes(WireTypes, call.envA)
  /\ Len(EnvelopeBytes(WireTypes, call.envA)) = Boundary + SignatureLength

\* Flow f issues through an adapter that has no signer.
NoSigner(f) == flow[f].sdk # None /\ flow[f].sdk.adapter.signer = AddrOf.none

\* C15: an issuance flow whose adapter has no signer gets an error from
\* signFeedbackAuth and no envelope: it never holds an envelope, never reaches
\* the submission, and sends nothing; a flow that holds an envelope has a
\* signer, whose signature the envelope carries.
C15_NoSignerNoEnvelope ==
  \A f \in Flows :
    /\ NoSigner(f) =>
         /\ flow[f].pc \in {"read", "built", "failed"}
         /\ flow[f].env = None
         /\ flow[f].sent = 0
         /\ flow[f].outcome \in {"none", "THROWN"}
    /\ flow[f].pc = "failed" => NoSigner(f) /\ flow[f].outcome = "THROWN"
    /\ flow[f].pc = "signed" =>
         /\ ~NoSigner(f)
         /\ SignaturePart(flow[f].env).signer = flow[f].sdk.adapter.signer

\* A flow without a signer built a record, and signing it failed.
C15_Witness ==
  \E f \in Flows :
    /\ NoSigner(f)
    /\ flow[f].pc = "failed"
    /\ flow[f].auth # None
    /\ flow[f].env = None
    /\ flow[f].outcome = "THROWN"

\* C17: the last index of a pair never decreases; it moves only by a CONFIRMED
\* submission, and then by one; and while the indexLimit of an envelope is at
\* most the last index of its pair, no submission of it is confirmed (which,
\* the index never decreasing, stays so in every later state).
C17_IndexMonotone ==
  [][/\ \A c \in Clients :
          /\ lastIdx'[c] >= lastIdx[c]
          /\ lastIdx'[c] # lastIdx[c] =>
               /\ lastIdx'[c] = lastIdx[c] + 1
               /\ held' # None /\ held'.outcome = "CONFIRMED"
     /\ (held # None /\ RecordOf(held.env).indexLimit <= HeldPairIndex) =>
          /\ lastIdx' = lastIdx
          /\ held' # None =>
               /\ RecordOf(held'.env).indexLimit <= lastIdx'[RecordOf(held'.env).clientAddress]
               /\ held' # held => held'.outcome \in {"REJECTED", "THROWN"}]_vars

\* An envelope otherwise valid, whose indexLimit the pair's last index has
\* reached, was submitted and REJECTED.
C17_Witness ==
  /\ held # None
  /\ held.used
  /\ held.outcome = "REJECTED"
  /\ HeldOtherwiseValid
  /\ RecordOf(held.env).indexLimit = held.before
  /\ held.before = MaxIndex

\* An abandoned envelope was submitted, with a score in range, while it was
\* unexpired and its indexLimit was the next index of its pair.
SubmittedInTime ==
  /\ held # None
  /\ held.outcome # "none"
  /\ held.scoreOk
  /\ held.live
  /\ RecordOf(held.env).indexLimit = held.before + 1

\* C18, as claimed: an abandoned envelope submitted later, by whoever holds
\* the bytes, is CONFIRMED as long as the clock has not passed its expiry and
\* its indexLimit is still the next index of the pair.
C18_AnyHolderConfirmed ==
  SubmittedInTime => held.outcome = "CONFIRMED"

\* C18, amended: such a submission is CONFIRMED when it is sent from the
\* account the record names as clientAddress, however long after the signing
\* (up to the expiry); sent from any other account it is REJECTED.
C18_ClientConfirmedLater ==
  SubmittedInTime =>
    /\ held.byClient => held.outcome = "CONFIRMED" /\ HeldPairIndex = held.before + 1
    /\ ~held.byClient => held.outcome = "REJECTED" /\ HeldPairIndex = held.before

\* An envelope for the second index of a pair, submitted by its client after
\* the clock had advanced, when the clock is at its expiry, was CONFIRMED.
C18_Witness ==
  /\ SubmittedInTime
  /\ held.byClient
  /\ held.late
  /\ held.outcome = "CONFIRMED"
  /\ held.before = 1
  /\ now = RecordOf(held.env).expiry

\* The instance of the last call can reach the registry and send.
CanSend(self) == self.adapter.signer # AddrOf.none /\ self.adapter.provider # DeadNode

\* C16: a giveFeedback call whose transaction the registry did not accept
\* ends with an error for the caller, never with a transaction hash.
C16_FailureSurfaced ==
  (call # None /\ call.op = "giveFeedback" /\ call.outcome # "CONFIRMED") =>
    call.returns = "error"

Malformed(auth) ==
  \/ \E field \in Fields \ AddressFields : Negative(auth[field])
  \/ \E field \in AddressFields : Len(auth[field]) # AddressLength

\* C21: signFeedbackAuth on a malformed record fails at the encoding: the
\* result is the coder's error and adapter.signMessage was not called, whether
\* the adapter has a signer or not; on a record every field of which the coder
\* takes, adapter.signMessage is called exactly once.
C21_MalformedFailsBeforeSigning ==
  (call # None /\ call.op = "signBytes") =>
    /\ Malformed(call.auth) =>
         /\ call.run.result = Throw("value out-of-bounds")
         /\ call.run.signed = 0
    /\ call.run.signed = 0 <=> call.run.result = Throw("value out-of-bounds")

\* A record with a 19-byte client address, handed to an instance that has a
\* signer, came back as the coder's error with nothing signed.
C21_Witness ==
  /\ call # None
  /\ call.op = "signBytes"
  /\ call.self.adapter.signer # AddrOf.none
  /\ call.auth.clientAddress = ShortAddress
  /\ call.run.result = Throw("value out-of-bounds")
  /\ call.run.signed = 0

\* C25: signFeedbackAuth ends with the coder's error on every record whose
\* indexLimit does not fit in 64 bits, so that every envelope it returns has an
\* indexLimit the uint64 of the wire format can hold.
C25_Uint64Enforced ==
  (call # None /\ call.op = "signBytes" /\ ~FitsUint64(call.auth.indexLimit)) =>
    call.run.result = Throw("value out-of-bounds")

\* What giveFeedback puts in the place of an optional field that was omitted.
EmptyValue ==
  [tag1 |-> ZeroHash, tag2 |-> ZeroHash, feedbackUri |-> "", feedbackHash |-> ZeroHash]

\* The place of each optional field among the arguments of the registry's
\* giveFeedback.
ArgumentOf == [tag1 |-> 3, tag2 |-> 4, feedbackUri |-> 5, feedbackHash |-> 6]

\* C22: giveFeedback hands the registry seven arguments: agentId and score
\* first and the envelope last, each as passed in; between them tag1, tag2,
\* feedbackUri and feedbackHash, each the empty value of its type when the
\* field was omitted, the feedbackUri and feedbackHash that were passed
\* otherwise; so a submission with only agentId, score and a valid envelope
\* for the next index is confirmed.
C22_SevenArgumentsForwarded ==
  (call # None /\ call.op = "giveFeedbackWith") =>
    /\ Len(call.args) = 7
    /\ call.args[1] = call.params.agentId
    /\ call.args[2] = call.params.score
    /\ call.args[7] = call.params.feedbackAuth
    /\ \A field \in OptionalFields :
         IF field \notin DOMAIN call.params
         THEN call.args[ArgumentOf[field]] = EmptyValue[field]
         ELSE (field \in {"feedbackUri", "feedbackHash"} /\ call.params[field] # "") =>
                call.args[ArgumentOf[field]] = call.params[field]
    /\ (/\ DOMAIN call.params = {"agentId", "score", "feedbackAuth"}
        /\ RecordOf(call.params.feedbackAuth).indexLimit
             = call.at[call.self.adapter.signer] + 1) =>
         call.outcome = "CONFIRMED"

\* A submission with only agentId, score and envelope, after one that took
\* the pair's first index, was confirmed with the four empty values.
C22_Witness ==
  /\ call # None
  /\ call.op = "giveFeedbackWith"
  /\ DOMAIN call.params = {"agentId", "score", "feedbackAuth"}
  /\ call.args = <<AgentId, call.params.score, ZeroHash, ZeroHash, "", ZeroHash,
                   call.params.feedbackAuth>>
  /\ call.outcome = "CONFIRMED"
  /\ call.at[call.self.adapter.signer] = 1

\* C24: whatever the arguments, the record createFeedbackAuth returns has as
\* its identityRegistry the address of the config the client was constructed
\* from, and its other six fields are the six arguments.
C24_RegistryFromConstruction ==
  (call # None /\ call.op = "createFeedbackAuth") =>
    /\ call.auth.identityRegistry = call.sdk.addresses.identityRegistry
    /\ call.auth.identityRegistry = call.sdk.reputation.identityRegistryAddress
    /\ <<call.auth.agentId, call.auth.clientAddress, call.auth.indexLimit,
          call.auth.expiry, call.auth.chainId, call.auth.signerAddress>> = call.args
    /\ DOMAIN call.auth = Fields

\* A client constructed for the other identity registry built a record, for
\* another chain and with the first registry's address as signerAddress, that
\* carries the registry of its construction.
C24_Witness ==
  /\ call # None
  /\ call.op = "createFeedbackAuth"
  /\ call.sdk.addresses.identityRegistry = AddrOf.otherRegistry
  /\ call.auth.identityRegistry = AddrOf.otherRegistry
  /\ call.auth.signerAddress = AddrOf.identityRegistry
  /\ call.auth.chainId = OtherChain

\* A giveFeedback call through a ViemAdapter, its send ended or under way.
ThroughViem ==
  /\ call # None
  /\ call.op \in {"send", "giveFeedback"}
  /\ call.self \notin Instances

\* C29: the calls ViemAdapter.send makes are, in this order, the simulation,
\* writeContract and waitForTransactionReceipt, each reached only when the
\* one before it succeeded: nothing is written for a transaction the registry
\* would reject in the state the simulation saw, or without a wallet client,
\* and the receipt is awaited only for a transaction that was written.
C29_SimulatedBeforeWritten ==
  ThroughViem =>
    /\ call.trace \in {<<>>, <<"simulateContract">>,
                        <<"simulateContract", "writeContract">>,
                        <<"simulateContract", "writeContract",
                          "waitForTransactionReceipt">>}
    /\ Len(call.trace) >= 1 => call.self.adapter.walletClient # Undefined
    /\ Len(call.trace) >= 2 =>
         RegistryAccepts(call.self.adapter.account, giveFeedbackArgs(call.params),
                         call.simulatedAt[call.self.adapter.account], now)
    /\ Len(call.trace) >= 3 => call.self.adapter.walletClient = LocalNode
    /\ (/\ call.op = "giveFeedback"
        /\ ~RegistryAccepts(call.self.adapter.account, giveFeedbackArgs(call.params),
                             call.simulatedAt[call.self.adapter.account], now)) =>
         /\ Len(call.trace) <= 1
         /\ call.returns = "error"
         /\ call.after = call.at

\* A transaction whose envelope is for an index the pair has used already was
\* simulated, threw there, and nothing was written.
C29_Witness ==
  /\ ThroughViem
  /\ call.op = "giveFeedback"
  /\ call.self.adapter.walletClient = LocalNode
  /\ call.trace = <<"simulateContract">>
  /\ call.outcome = "REJECTED"
  /\ call.returns = "error"
  /\ RecordOf(call.params.feedbackAuth).indexLimit
       <= call.at[call.self.adapter.account]

\* C23: a giveFeedback that a ViemAdapter has sent and seen mined ends as the
\* same call through an EthersAdapter with a signer for the same account
\* ends, in the registry state it is mined in: the same verdict, a transaction
\* hash or an error alike, and the same last index afterwards.
C23_AdaptersAgree ==
  [][(/\ Pending
      /\ call.trace = <<"simulateContract", "writeContract">>
      /\ call' # None
      /\ call'.op = "giveFeedback") =>
       LET account == call.self.adapter.account
           r == giveFeedback(clientSDK(account), call.params)
       IN  /\ call'.outcome = r.outcome
           /\ call'.returns = IF r.outcome = "CONFIRMED" THEN "txHash" ELSE "error"
           /\ lastIdx' = [lastIdx EXCEPT ![account] = r.last]]_vars

\* C26: validationResponse throws on a response below 0 or above 100 without
\* calling adapter.send; for a response from 0 to 100 it calls adapter.send
\* exactly once, with the request hash and the response as passed and, for
\* each of responseUri, responseHash and tag that was omitted, the empty
\* string or the zero bytes32.
C26_ResponseChecked ==
  (call # None /\ call.op = "validationResponse") =>
    IF call.params.response < 0 \/ call.params.response > 100
    THEN /\ call.result = Throw("Response MUST be between 0 and 100")
         /\ call.sent = 0
         /\ ~call.mined
         /\ RegistryState = call.before
    ELSE /\ call.sent = 1
         /\ Len(call.args) = 5
         /\ call.args[1] = call.params.requestHash
         /\ call.args[2] = call.params.response
         /\ "responseUri" \notin DOMAIN call.params => call.args[3] = ""
         /\ "responseUri" \in DOMAIN call.params => call.args[3] = call.params.responseUri
         /\ "responseHash" \notin DOMAIN call.params => call.args[4] = ZeroHash
         /\ "responseHash" \in DOMAIN call.params => call.args[4] = call.params.responseHash
         /\ "tag" \notin DOMAIN call.params => call.args[5] = ZeroHash

\* The validator answered a request with the response 0 and nothing else: one
\* transaction, with the three empty values, went through.
C26_Witness ==
  /\ call # None
  /\ call.op = "validationResponse"
  /\ DOMAIN call.params = {"requestHash", "response"}
  /\ call.params.response = 0
  /\ call.sent = 1
  /\ call.mined
  /\ call.args = <<call.params.requestHash, 0, "", ZeroHash, ZeroHash>>

\* The errors the fallback of getValidationStatus is for.
DecodingErrors ==
  {e \in ReadErrors :
     e.code = "BAD_DATA" \/ e.message = "could not decode result data (value=0x)"}

\* C27: getValidationStatus reads a second time exactly when the first read
\* threw a decoding error; the status it then returns is the registry's with
\* the zero bytes32 as responseHash, and an error of the second read is
\* thrown on. After any other error of the first read it reads no more and
\* throws that error; after a first read that succeeded it returns the status
\* as read.
C27_FallbackOnDecodingError ==
  (call # None /\ call.op = "getValidationStatus") =>
    /\ call.reads = IF call.first \in DecodingErrors THEN 2 ELSE 1
    /\ call.first = Ok => call.result = StatusOf(call.requestHash)
    /\ (call.first \in DecodingErrors /\ call.second = Ok) =>
         call.result = [StatusOf(call.requestHash) EXCEPT !.responseHash = ZeroHash]
    /\ (call.first \in DecodingErrors /\ call.second # Ok) =>
         call.result = Throw(call.second)
    /\ call.first \in ReadErrors \ DecodingErrors => call.result = Throw(call.first)

\* A first read failed with the decoding message under another error code;
\* the second read gave the status of a request answered with a responseHash,
\* and the status returned has the zero responseHash.
C27_Witness ==
  /\ call # None
  /\ call.op = "getValidationStatus"
  /\ call.first \in DecodingErrors
  /\ call.first.code = "UNKNOWN_ERROR"
  /\ call.second = Ok
  /\ call.reads = 2
  /\ validations[call.requestHash] # None
  /\ validations[call.requestHash].responseHash # ZeroHash
  /\ call.result.responseHash = ZeroHash
  /\ call.result.response = 100

\* The receipt of the registration has an event named Registered.
HasRegistered(receipt) ==
  \E i \in DOMAIN receipt.events : receipt.events[i].name = "Registered"

\* C28: a registration whose transaction was mined returns the agentId of the
\* Registered event of its receipt, with the transaction hash; when the
\* receipt has no such event it throws, the agent being registered all the
\* same.
C28_AgentIdFromEvent ==
  (call # None /\ call.op = "register" /\ call.mined) =>
    /\ call.sent = 1
    /\ call.assigned \in DOMAIN agents[call.self.contractAddress]
    /\ IF HasRegistered(call.receipt)
       THEN call.result = [agentId |-> call.assigned, txHash |-> call.receipt.txHash]
       ELSE call.result = Throw("Could not extract agentId from transaction receipt")

\* The adapter was built without a signer (ethers), without a wallet client
\* or without an account (viem).
ReadOnly(adapter) ==
  IF IsEthers(adapter)
  THEN adapter.signer = AddrOf.none
  ELSE adapter.walletClient = Undefined \/ adapter.account = AddrOf.none

WriteOperations ==
  {"register", "validationRequest", "validationResponse", "giveFeedback"}
    \cup PlainWrites

\* Through a read-only adapter every write ends with an error, no
\* transaction is mined and the registries are as before; reads give what
\* the registry holds.
WritesFailReadsSucceed ==
  /\ (call # None /\ call.op \in WriteOperations /\ ReadOnly(call.self.adapter)) =>
       /\ "error" \in DOMAIN call.result
       /\ ~call.mined
       /\ RegistryState = call.before
  /\ (call # None /\ call.op = "getOwner" /\ ReadOnly(call.self.adapter)
        /\ call.agentId \in DOMAIN agents[AddrOf.identityRegistry]) =>
       call.result = [value |-> agents[AddrOf.identityRegistry][call.agentId]]
  /\ (call # None /\ call.op = "getValidationStatus" /\ call.first = Ok) =>
       call.result = StatusOf(call.requestHash)

\* C30: through an adapter built without a signer every write fails before
\* the contract is reached and leaves the registries unchanged, reads still
\* succeed, and getAddress returns null.
C30_ReadOnlyMode ==
  /\ WritesFailReadsSucceed
  /\ (call # None /\ call.op = "getAddress" /\ ReadOnly(call.self.adapter)) =>
       call.result.value = Null
====
